---------------------------- MODULE Spec2Model ----------------------------
(***************************************************************************)
(* A model of the opencli crate (src/src/lib.rs, src/src/error.rs): the    *)
(* OpenCLI document model with its serde attributes, and the loader        *)
(* from_path / from_slice / from_str, which tries serde_yaml first and     *)
(* falls back to serde_json.                                               *)
(*                                                                         *)
(* A text is a sequence of tokens; its characters are the concatenation of *)
(* the tokens' characters:                                                 *)
(*   [t |-> "p",   s |-> c]   the punctuation character c: { } [ ] , or :  *)
(*   [t |-> "dq",  s |-> c]   a double-quoted string: " c "                *)
(*   [t |-> "lit", s |-> c]   the bare word or number c: letters, digits   *)
(*                            and . _ + - ~, beginning with a letter, a    *)
(*                            digit, ~ or a sign before a digit            *)
(*   [t |-> "ws",  s |-> c]   the white space c (a blank or a tab)         *)
(* In the content of a "dq" token and in in-memory strings, <U+0085> and   *)
(* <U+1F600> stand for that one raw character.  The texts of the model:    *)
(*   - are one line: the only line break is a raw <U+0085> in a "dq";      *)
(*   - after a "lit", and after the white space that follows a "lit",      *)
(*     comes the end of the text, one of , ] } or a colon that white space *)
(*     or the end of the text follows; after a "lit" comes white space     *)
(*     too, and after that white space a "lit", [ or { too;                *)
(*   - begin, after white space, with { or [ or a scalar; after a "dq"     *)
(*     that begins the text comes only white space, after a "lit" that     *)
(*     begins it only white space and "lit"s, and after the bracket that   *)
(*     closes the first { or [ comes no colon;                             *)
(*   - have no key of 1024 characters or more.                             *)
(***************************************************************************)
EXTENDS Integers, Sequences, FiniteSets, TLC

P(c)   == [t |-> "p",   s |-> c]
DQ(c)  == [t |-> "dq",  s |-> c]
LIT(c) == [t |-> "lit", s |-> c]
WS(c)  == [t |-> "ws",  s |-> c]

TAB == WS("\t")
SP  == WS(" ")

(***************************************************************************)
(* Parsed nodes, the events both decoders hand to the derived Deserialize  *)
(* implementations: a scalar with its style and lexeme, a sequence of      *)
(* nodes, or a mapping, a sequence of [key, val] pairs.                    *)
(***************************************************************************)
Scalar(style, lex) == [k |-> "scalar", style |-> style, lex |-> lex, items |-> <<>>]
SeqNode(items)     == [k |-> "seq", style |-> "", lex |-> "", items |-> items]
MapNode(entries)   == [k |-> "map", style |-> "", lex |-> "", items |-> entries]
EmptyScalar        == Scalar("plain", "")

ParseFail == [ok |-> FALSE, node |-> EmptyScalar, next |-> 0]
ParseOk(n, i) == [ok |-> TRUE, node |-> n, next |-> i]

(***************************************************************************)
(* Lexemes.  TLC cannot look inside a string, so what a lexeme denotes is  *)
(* given by tables over the lexemes the texts of this model use.           *)
(***************************************************************************)
IntLexemes   == {"0", "1", "2", "3", "-1", "123", "2147483647", "2147483648"}
FloatLexemes == {"0.1", "1.0", "1.5"}

IntVal(lex) ==
  CASE lex = "0" -> 0
    [] lex = "1" -> 1
    [] lex = "2" -> 2
    [] lex = "3" -> 3
    [] lex = "-1" -> -1
    [] lex = "123" -> 123
    [] lex = "2147483647" -> 2147483647
    [] OTHER -> 0

IntLex(n) ==
  CASE n = 0 -> "0"
    [] n = 1 -> "1"
    [] n = 2 -> "2"
    [] n = 3 -> "3"
    [] n = -1 -> "-1"
    [] n = 123 -> "123"
    [] n = 2147483647 -> "2147483647"
    [] OTHER -> "0"

\* The integer lexemes above that an i32 cannot hold (i32::MAX + 1).
BeyondI32 == {"2147483648"}

\* The escapes of a JSON string: \" is the quote, a \ud83d\ude00
\* surrogate pair is U+1F600; every other content of this model has no backslash and
\* stands for itself (serde_json rejects only raw characters below U+0020).
JsonUnescape(c) ==
  CASE c = "say \\\"hi\\\"" -> "say \"hi\""
    [] c = "\\ud83d\\ude00" -> "<U+1F600>"
    [] OTHER -> c

JsonStringOk(c) == c /= "\\q"

\* serde_json's writer escapes the quote, the backslash and the characters
\* below U+0020, and writes every other character raw.
JsonEscape(v) ==
  CASE v = "say \"hi\"" -> "say \\\"hi\\\""
    [] OTHER -> v

\* A double-quoted YAML scalar (libyaml's scanner): a \u escape naming a
\* surrogate is an error, and a raw line break is folded to one blank;
\* U+0085 is a line break there.
YamlStringOk(c) == c \notin {"\\q", "\\ud83d\\ude00"}

YamlUnescape(c) ==
  CASE c = "say \\\"hi\\\"" -> "say \"hi\""
    [] c = "a<U+0085>b" -> "a b"
    [] OTHER -> c

RECURSIVE SkipWs(_, _)
SkipWs(toks, i) ==
  IF i <= Len(toks) /\ toks[i].t = "ws" THEN SkipWs(toks, i + 1) ELSE i

(***************************************************************************)
(* serde_json's grammar (RFC 8259).                                        *)
(***************************************************************************)
JsonLiteralOk(lex) ==
  lex \in {"null", "true", "false"} \cup IntLexemes \cup FloatLexemes

RECURSIVE JsonValue(_, _), JsonElements(_, _, _, _), JsonMembers(_, _, _, _)

JsonValue(toks, i0) ==
  LET i == SkipWs(toks, i0) IN
  IF i > Len(toks) THEN ParseFail
  ELSE LET tk == toks[i] IN
    CASE tk.t = "dq"  -> IF JsonStringOk(tk.s)
                         THEN ParseOk(Scalar("dq", tk.s), i + 1) ELSE ParseFail
      [] tk.t = "lit" -> IF JsonLiteralOk(tk.s)
                         THEN ParseOk(Scalar("plain", tk.s), i + 1) ELSE ParseFail
      [] tk = P("[")  -> JsonElements(toks, i + 1, <<>>, TRUE)
      [] tk = P("{")  -> JsonMembers(toks, i + 1, <<>>, TRUE)
      [] OTHER        -> ParseFail

\* first: nothing of the array has been read, so "]" may close it; after a
\* comma a value must follow.
JsonElements(toks, i0, acc, first) ==
  LET i == SkipWs(toks, i0) IN
  IF i > Len(toks) THEN ParseFail
  ELSE IF first /\ toks[i] = P("]") THEN ParseOk(SeqNode(acc), i + 1)
  ELSE LET v == JsonValue(toks, i) IN
    IF ~v.ok THEN ParseFail
    ELSE LET j == SkipWs(toks, v.next) IN
      IF j > Len(toks) THEN ParseFail
      ELSE IF toks[j] = P(",") THEN JsonElements(toks, j + 1, Append(acc, v.node), FALSE)
      ELSE IF toks[j] = P("]") THEN ParseOk(SeqNode(Append(acc, v.node)), j + 1)
      ELSE ParseFail

JsonMembers(toks, i0, acc, first) ==
  LET i == SkipWs(toks, i0) IN
  IF i > Len(toks) THEN ParseFail
  ELSE IF first /\ toks[i] = P("}") THEN ParseOk(MapNode(acc), i + 1)
  ELSE IF toks[i].t /= "dq" \/ ~JsonStringOk(toks[i].s) THEN ParseFail
  ELSE LET c == SkipWs(toks, i + 1) IN
    IF c > Len(toks) \/ toks[c] /= P(":") THEN ParseFail
    ELSE LET v == JsonValue(toks, c + 1) IN
      IF ~v.ok THEN ParseFail
      ELSE LET e == [key |-> Scalar("dq", toks[i].s), val |-> v.node]
               j == SkipWs(toks, v.next) IN
        IF j > Len(toks) THEN ParseFail
        ELSE IF toks[j] = P(",") THEN JsonMembers(toks, j + 1, Append(acc, e), FALSE)
        ELSE IF toks[j] = P("}") THEN ParseOk(MapNode(Append(acc, e)), j + 1)
        ELSE ParseFail

\* One value, then only white space (Deserializer::end).
JsonParse(toks) ==
  LET r == JsonValue(toks, 1) IN
  IF r.ok /\ SkipWs(toks, r.next) > Len(toks) THEN r ELSE ParseFail

(***************************************************************************)
(* serde_yaml's grammar (libyaml's scanner and parser), for the one-line   *)
(* texts above.  Before the first token a tab cannot start a token; inside *)
(* a flow collection blanks and tabs separate tokens.  Bare words with     *)
(* white space between them are one plain scalar.  An entry of a flow      *)
(* collection is a node, or a node, a colon and an optional value: in a    *)
(* mapping a pair (a node alone is a key with an empty value), in a        *)
(* sequence a node or a mapping of one pair.  A comma may close a          *)
(* collection.  A key ends on the line it begins on.                       *)
(***************************************************************************)
\* The characters of the white space tokens toks[a..b].
RECURSIVE Blanks(_, _, _)
Blanks(toks, a, b) == IF a > b THEN "" ELSE toks[a].s \o Blanks(toks, a + 1, b)

\* The plain scalar that has lex so far and toks[i] as its last word: the
\* white space before a next word is kept, the white space after the last
\* word is not.
RECURSIVE YamlPlain(_, _, _)
YamlPlain(toks, i, lex) ==
  LET j == SkipWs(toks, i + 1) IN
  IF j <= Len(toks) /\ toks[j].t = "lit"
  THEN YamlPlain(toks, j, lex \o Blanks(toks, i + 1, j - 1) \o toks[j].s)
  ELSE ParseOk(Scalar("plain", lex), i + 1)

\* The double-quoted contents of this model that hold a raw line break.
BreakLexemes == {"a<U+0085>b"}

RECURSIVE HasBreak(_)
HasBreak(node) ==
  CASE node.k = "scalar" -> node.style = "dq" /\ node.lex \in BreakLexemes
    [] node.k = "seq" -> \E i \in 1..Len(node.items) : HasBreak(node.items[i])
    [] node.k = "map" -> \E i \in 1..Len(node.items) :
                           HasBreak(node.items[i].key) \/ HasBreak(node.items[i].val)

EntryFail == [ok |-> FALSE, pair |-> FALSE, key |-> EmptyScalar, val |-> EmptyScalar,
              next |-> 0]
EntryOk(pair, key, val, i) == [ok |-> TRUE, pair |-> pair, key |-> key, val |-> val,
                               next |-> i]

RECURSIVE YamlValue(_, _), YamlEntry(_, _, _), YamlElements(_, _, _), YamlMembers(_, _, _)

YamlValue(toks, i0) ==
  LET i == SkipWs(toks, i0) IN
  IF i > Len(toks) THEN ParseFail
  ELSE LET tk == toks[i] IN
    CASE tk.t = "dq"  -> IF YamlStringOk(tk.s)
                         THEN ParseOk(Scalar("dq", tk.s), i + 1) ELSE ParseFail
      [] tk.t = "lit" -> YamlPlain(toks, i, tk.s)
      [] tk = P("[")  -> YamlElements(toks, i + 1, <<>>)
      [] tk = P("{")  -> YamlMembers(toks, i + 1, <<>>)
      [] OTHER        -> ParseFail

\* One entry of the flow collection that `closer` closes.  The colon makes
\* the node before it a simple key, which must not span a line break; the
\* value is empty when a comma or the closer follows the colon.
YamlEntry(toks, i, closer) ==
  LET k == YamlValue(toks, i) IN
  IF ~k.ok THEN EntryFail
  ELSE LET c == SkipWs(toks, k.next) IN
    IF c > Len(toks) \/ toks[c] /= P(":")
    THEN EntryOk(FALSE, k.node, EmptyScalar, k.next)
    ELSE IF HasBreak(k.node) THEN EntryFail
    ELSE LET a == SkipWs(toks, c + 1) IN
      IF a <= Len(toks) /\ toks[a] \in {P(","), closer}
      THEN EntryOk(TRUE, k.node, EmptyScalar, a)
      ELSE LET v == YamlValue(toks, a) IN
           IF v.ok THEN EntryOk(TRUE, k.node, v.node, v.next) ELSE EntryFail

YamlElements(toks, i0, acc) ==
  LET i == SkipWs(toks, i0) IN
  IF i > Len(toks) THEN ParseFail
  ELSE IF toks[i] = P("]") THEN ParseOk(SeqNode(acc), i + 1)
  ELSE LET e == YamlEntry(toks, i, P("]")) IN
    IF ~e.ok THEN ParseFail
    ELSE LET n == IF e.pair THEN MapNode(<<[key |-> e.key, val |-> e.val]>>) ELSE e.key
             j == SkipWs(toks, e.next) IN
      IF j > Len(toks) THEN ParseFail
      ELSE IF toks[j] = P(",") THEN YamlElements(toks, j + 1, Append(acc, n))
      ELSE IF toks[j] = P("]") THEN ParseOk(SeqNode(Append(acc, n)), j + 1)
      ELSE ParseFail

YamlMembers(toks, i0, acc) ==
  LET i == SkipWs(toks, i0) IN
  IF i > Len(toks) THEN ParseFail
  ELSE IF toks[i] = P("}") THEN ParseOk(MapNode(acc), i + 1)
  ELSE LET e == YamlEntry(toks, i, P("}")) IN
    IF ~e.ok THEN ParseFail
    ELSE LET m == [key |-> e.key, val |-> e.val]
             j == SkipWs(toks, e.next) IN
      IF j > Len(toks) THEN ParseFail
      ELSE IF toks[j] = P(",") THEN YamlMembers(toks, j + 1, Append(acc, m))
      ELSE IF toks[j] = P("}") THEN ParseOk(MapNode(Append(acc, m)), j + 1)
      ELSE ParseFail

\* One document, then the end of the stream.  Before the first token the
\* scanner skips blanks only.
YamlParse(toks) ==
  LET i == SkipWs(toks, 1) IN
  IF \E j \in 1..(i - 1) : toks[j] = TAB THEN ParseFail
  ELSE LET r == YamlValue(toks, i) IN
    IF r.ok /\ SkipWs(toks, r.next) > Len(toks) THEN r ELSE ParseFail

(***************************************************************************)
(* The document model.  A struct is the sequence of its fields in source   *)
(* order: the Rust name, the type, and the field's serde attributes:       *)
(*   "req"  no attribute: the field must be present                        *)
(*   "opt"  Option<ty> with skip_serializing_if = "Option::is_none"        *)
(*   "vec"  Vec<ty> with default, skip_serializing_if = "Vec::is_empty"    *)
(***************************************************************************)
F(rust, kind, ty) == [rust |-> rust, kind |-> kind, ty |-> ty]

OpenCliDocument ==
  << F("opencli", "req", "String"),
     F("info", "req", "OpenCliInfo"),
     F("conventions", "opt", "OpenCliConventions"),
     F("arguments", "vec", "OpenCliArgument"),
     F("options", "vec", "OpenCliOption"),
     F("commands", "vec", "OpenCliCommand"),
     F("exit_codes", "vec", "OpenCliExitCode"),
     F("examples", "vec", "String"),
     F("interactive", "opt", "bool"),
     F("metadata", "vec", "OpenCliMetadata") >>

OpenCliInfo ==
  << F("title", "req", "String"),
     F("summary", "opt", "String"),
     F("description", "opt", "String"),
     F("contact", "opt", "OpenCliContact"),
     F("license", "opt", "OpenCliLicense"),
     F("version", "req", "String") >>

OpenCliConventions ==
  << F("group_options", "opt", "bool"),
     F("option_argument_separator", "opt", "String") >>

OpenCliContact ==
  << F("name", "opt", "String"),
     F("url", "opt", "String"),
     F("email", "opt", "String") >>

OpenCliLicense ==
  << F("name", "opt", "String"),
     F("identifier", "opt", "String") >>

OpenCliCommand ==
  << F("name", "req", "String"),
     F("aliases", "vec", "String"),
     F("options", "vec", "OpenCliOption"),
     F("arguments", "vec", "OpenCliArgument"),
     F("commands", "vec", "OpenCliCommand"),
     F("exit_codes", "vec", "OpenCliExitCode"),
     F("description", "opt", "String"),
     F("hidden", "opt", "bool"),
     F("examples", "vec", "String"),
     F("interactive", "opt", "bool"),
     F("metadata", "vec", "OpenCliMetadata") >>

OpenCliArgument ==
  << F("name", "req", "String"),
     F("required", "opt", "bool"),
     F("arity", "opt", "OpenCliArity"),
     F("accepted_values", "vec", "String"),
     F("group", "opt", "String"),
     F("description", "opt", "String"),
     F("hidden", "opt", "bool"),
     F("metadata", "vec", "OpenCliMetadata") >>

OpenCliOption ==
  << F("name", "req", "String"),
     F("required", "opt", "bool"),
     F("aliases", "vec", "String"),
     F("arguments", "vec", "OpenCliArgument"),
     F("group", "opt", "String"),
     F("description", "opt", "String"),
     F("recursive", "opt", "bool"),
     F("hidden", "opt", "bool"),
     F("metadata", "vec", "OpenCliMetadata") >>

OpenCliArity ==
  << F("minimum", "opt", "i32"),
     F("maximum", "opt", "i32") >>

OpenCliExitCode ==
  << F("code", "req", "i32"),
     F("description", "opt", "String") >>

OpenCliMetadata ==
  << F("name", "req", "String"),
     F("value", "opt", "Value") >>

StructNames ==
  {"OpenCliDocument", "OpenCliInfo", "OpenCliConventions", "OpenCliContact",
   "OpenCliLicense", "OpenCliCommand", "OpenCliArgument", "OpenCliOption",
   "OpenCliArity", "OpenCliExitCode", "OpenCliMetadata"}

Fields(ty) ==
  CASE ty = "OpenCliDocument"    -> OpenCliDocument
    [] ty = "OpenCliInfo"        -> OpenCliInfo
    [] ty = "OpenCliConventions" -> OpenCliConventions
    [] ty = "OpenCliContact"     -> OpenCliContact
    [] ty = "OpenCliLicense"     -> OpenCliLicense
    [] ty = "OpenCliCommand"     -> OpenCliCommand
    [] ty = "OpenCliArgument"    -> OpenCliArgument
    [] ty = "OpenCliOption"      -> OpenCliOption
    [] ty = "OpenCliArity"       -> OpenCliArity
    [] ty = "OpenCliExitCode"    -> OpenCliExitCode
    [] ty = "OpenCliMetadata"    -> OpenCliMetadata

\* #[serde(rename_all = "camelCase")]: the serialized name of a field.
CamelCase(rust) ==
  CASE rust = "exit_codes" -> "exitCodes"
    [] rust = "group_options" -> "groupOptions"
    [] rust = "option_argument_separator" -> "optionArgumentSeparator"
    [] rust = "accepted_values" -> "acceptedValues"
    [] OTHER -> rust

RustNames(ty) == {Fields(ty)[i].rust : i \in 1..Len(Fields(ty))}

(***************************************************************************)
(* In-memory values: a String is a string, a bool a BOOLEAN, an i32 an     *)
(* integer, None is <<>> and Some(v) is <<v>>, a Vec is a sequence, a      *)
(* struct is a record over its Rust field names, and a serde_json::Value   *)
(* is one of the records below (an object is its set of [key, val]         *)
(* members: serde_json's Map compares as a map).                           *)
(***************************************************************************)
None == <<>>
Some(v) == <<v>>

VNull      == [tag |-> "null"]
VBool(b)   == [tag |-> "bool", b |-> b]
VInt(lex)  == [tag |-> "number", n |-> "int", lex |-> lex]
VFloat(lex) == [tag |-> "number", n |-> "float", lex |-> lex]
VString(s) == [tag |-> "string", s |-> s]
VArray(a)  == [tag |-> "array", a |-> a]
VObject(o) == [tag |-> "object", o |-> o]

DeOk(v) == [ok |-> TRUE, val |-> v]
DeErr   == [ok |-> FALSE, val |-> "error"]

(***************************************************************************)
(* Deserialize, as serde derives it and as each decoder drives it.         *)
(* fmt is "yaml" (serde_yaml) or "json" (serde_json).                      *)
(***************************************************************************)
\* The text of a scalar read as a string.  serde_json takes a string only;
\* serde_yaml's deserialize_str takes any scalar, a plain one as written.
DeString(fmt, node) ==
  IF node.k /= "scalar" THEN DeErr
  ELSE IF fmt = "json"
       THEN IF node.style = "dq" THEN DeOk(JsonUnescape(node.lex)) ELSE DeErr
       ELSE IF node.style = "dq" THEN DeOk(YamlUnescape(node.lex)) ELSE DeOk(node.lex)

YamlTrue  == {"true", "True", "TRUE"}
YamlFalse == {"false", "False", "FALSE"}

DeBool(fmt, node) ==
  IF node.k /= "scalar" \/ node.style /= "plain" THEN DeErr
  ELSE IF fmt = "json"
       THEN IF node.lex \in {"true", "false"} THEN DeOk(node.lex = "true") ELSE DeErr
       ELSE IF node.lex \in YamlTrue \cup YamlFalse
            THEN DeOk(node.lex \in YamlTrue) ELSE DeErr

DeI32(fmt, node) ==
  IF node.k /= "scalar" \/ node.style /= "plain" THEN DeErr
  ELSE IF node.lex \in IntLexemes \ BeyondI32
       THEN DeOk(IntVal(node.lex)) ELSE DeErr

\* What Option<T> reads as None.
YamlNull == {"null", "Null", "NULL", "~", ""}

IsNull(fmt, node) ==
  /\ node.k = "scalar"
  /\ node.style = "plain"
  /\ IF fmt = "json" THEN node.lex = "null" ELSE node.lex \in YamlNull

\* serde_json::Value reads the keys of a mapping as strings: a key that is
\* a sequence or a mapping is an error (serde_yaml; serde_json's grammar has
\* string keys only).
RECURSIVE ValueOk(_)
ValueOk(node) ==
  CASE node.k = "scalar" -> TRUE
    [] node.k = "seq" -> \A i \in 1..Len(node.items) : ValueOk(node.items[i])
    [] node.k = "map" -> \A i \in 1..Len(node.items) :
                           /\ node.items[i].key.k = "scalar"
                           /\ ValueOk(node.items[i].val)

RECURSIVE DeValue(_, _), DeValueSeq(_, _, _), DeValueMap(_, _, _)

\* serde_json::Value through deserialize_any.
DeValue(fmt, node) ==
  CASE node.k = "seq" -> VArray(DeValueSeq(fmt, node.items, 1))
    [] node.k = "map" -> VObject(DeValueMap(fmt, node.items, Len(node.items)))
    [] node.k = "scalar" /\ node.style = "dq" ->
         VString(IF fmt = "json" THEN JsonUnescape(node.lex) ELSE YamlUnescape(node.lex))
    [] OTHER ->
         IF IsNull(fmt, node) THEN VNull
         ELSE IF DeBool(fmt, node).ok THEN VBool(DeBool(fmt, node).val)
         ELSE IF node.lex \in IntLexemes THEN VInt(node.lex)
         ELSE IF node.lex \in FloatLexemes THEN VFloat(node.lex)
         ELSE VString(node.lex)

DeValueSeq(fmt, items, i) ==
  IF i > Len(items) THEN <<>>
  ELSE <<DeValue(fmt, items[i])>> \o DeValueSeq(fmt, items, i + 1)

\* Map::insert: of two members with one key the later stays.
DeValueMap(fmt, entries, n) ==
  IF n = 0 THEN {}
  ELSE LET key == DeString(fmt, entries[n].key).val
           rest == DeValueMap(fmt, entries, n - 1) IN
       {m \in rest : m.key /= key}
         \cup {[key |-> key, val |-> DeValue(fmt, entries[n].val)]}

RECURSIVE DeType(_, _, _), DeField(_, _, _), DeVec(_, _, _, _, _),
          DeStruct(_, _, _), VisitMap(_, _, _, _, _), VisitSeq(_, _, _, _, _)

DeType(fmt, ty, node) ==
  CASE ty = "String" -> DeString(fmt, node)
    [] ty = "bool"   -> DeBool(fmt, node)
    [] ty = "i32"    -> DeI32(fmt, node)
    [] ty = "Value"  -> IF ValueOk(node) THEN DeOk(DeValue(fmt, node)) ELSE DeErr
    [] OTHER         -> DeStruct(fmt, ty, node)

\* Vec<T>: a sequence; serde_yaml also reads an empty plain scalar as the
\* empty sequence.  null is no sequence in either format.
DeVec(fmt, ty, node, i, acc) ==
  IF node.k /= "seq"
  THEN IF fmt = "yaml" /\ node = EmptyScalar THEN DeOk(<<>>) ELSE DeErr
  ELSE IF i > Len(node.items) THEN DeOk(acc)
  ELSE LET r == DeType(fmt, ty, node.items[i]) IN
       IF r.ok THEN DeVec(fmt, ty, node, i + 1, Append(acc, r.val)) ELSE DeErr

\* A field's value, when the field is present.
DeField(fmt, f, node) ==
  CASE f.kind = "req" -> DeType(fmt, f.ty, node)
    [] f.kind = "opt" ->
         IF IsNull(fmt, node) THEN DeOk(None)
         ELSE LET r == DeType(fmt, f.ty, node) IN
              IF r.ok THEN DeOk(Some(r.val)) ELSE DeErr
    [] f.kind = "vec" -> DeVec(fmt, f.ty, node, 1, <<>>)

\* A field that the input does not have: serde(default) gives the empty
\* Vec, an Option is None, anything else is the error "missing field".
MutMissingDefaulted(f) == DeOk(IF f.ty = "String" THEN "" ELSE <<>>)
MutMissingNoDefault(f) == IF f.kind = "opt" THEN DeOk(None) ELSE DeErr
Missing(f) ==
  CASE f.kind = "req" -> DeErr
    [] f.kind = "opt" -> DeOk(None)
    [] f.kind = "vec" -> DeOk(<<>>)

FieldIndex(ty, key) ==
  LET hits == {i \in 1..Len(Fields(ty)) : CamelCase(Fields(ty)[i].rust) = key} IN
  IF hits = {} THEN 0 ELSE CHOOSE i \in hits : TRUE

\* acc maps each Rust field name to <<>> (not seen) or <<value>>.
Finish(ty, acc) ==
  LET fs == Fields(ty)
      got(f) == IF acc[f.rust] /= <<>> THEN DeOk(acc[f.rust][1]) ELSE Missing(f) IN
  IF \A i \in 1..Len(fs) : got(fs[i]).ok
  THEN DeOk([r \in RustNames(ty) |->
               got(fs[CHOOSE i \in 1..Len(fs) : fs[i].rust = r]).val])
  ELSE DeErr

\* The derived visit_map: an unknown key is skipped with its value, a key
\* seen twice is the error "duplicate field".
VisitMap(fmt, ty, entries, i, acc) ==
  IF i > Len(entries) THEN Finish(ty, acc)
  ELSE LET key == DeString(fmt, entries[i].key)
           fi == IF key.ok THEN FieldIndex(ty, key.val) ELSE 0 IN
    IF ~key.ok THEN DeErr
    ELSE IF fi = 0 THEN VisitMap(fmt, ty, entries, i + 1, acc)
    ELSE LET f == Fields(ty)[fi] IN
      IF acc[f.rust] /= <<>> THEN DeErr
      ELSE LET r == DeField(fmt, f, entries[i].val) IN
        IF ~r.ok THEN DeErr
        ELSE VisitMap(fmt, ty, entries, i + 1, [acc EXCEPT ![f.rust] = <<r.val>>])

\* The derived visit_seq, which serde_json calls for an array (serde_yaml's
\* deserialize_struct is deserialize_map: a mapping, or an empty plain
\* scalar as the empty mapping): the fields in order; past the end of the input a
\* serde(default) field is its default and any other is "invalid length";
\* elements past the last field are an error of the decoder.
VisitSeq(fmt, ty, items, i, acc) ==
  LET fs == Fields(ty) IN
  IF i > Len(fs)
  THEN IF Len(items) > Len(fs) THEN DeErr ELSE Finish(ty, acc)
  ELSE LET f == fs[i]
           r == IF i <= Len(items) THEN DeField(fmt, f, items[i])
                ELSE IF f.kind = "vec" THEN DeOk(<<>>) ELSE DeErr IN
    IF ~r.ok THEN DeErr
    ELSE VisitSeq(fmt, ty, items, i + 1, [acc EXCEPT ![f.rust] = <<r.val>>])

DeStruct(fmt, ty, node) ==
  LET unseen == [r \in RustNames(ty) |-> <<>>] IN
  CASE node.k = "map" -> VisitMap(fmt, ty, node.items, 1, unseen)
    [] node.k = "seq" /\ fmt = "json" -> VisitSeq(fmt, ty, node.items, 1, unseen)
    [] node = EmptyScalar /\ fmt = "yaml" -> VisitMap(fmt, ty, <<>>, 1, unseen)
    [] OTHER -> DeErr

\* serde_yaml::from_str::<OpenCliDocument> and serde_json::from_str.
serde_yaml_from_str(content) ==
  LET p == YamlParse(content) IN
  IF p.ok THEN DeStruct("yaml", "OpenCliDocument", p.node) ELSE DeErr

serde_json_from_str(content) ==
  LET p == JsonParse(content) IN
  IF p.ok THEN DeStruct("json", "OpenCliDocument", p.node) ELSE DeErr

(***************************************************************************)
(* Serialize, as serde derives it, written by serde_json::to_string.       *)
(***************************************************************************)
\* The member names of the objects of this model, in the order of
\* serde_json's Map (a BTreeMap: sorted by key).
ObjectKeys == <<"a", "b">>

RECURSIVE SerValue(_), SerValueSeq(_, _), SerValueMap(_, _)

SerValue(v) ==
  CASE v.tag = "null"   -> Scalar("plain", "null")
    [] v.tag = "bool"   -> Scalar("plain", IF v.b THEN "true" ELSE "false")
    [] v.tag = "number" -> Scalar("plain", v.lex)
    [] v.tag = "string" -> Scalar("dq", JsonEscape(v.s))
    [] v.tag = "array"  -> SeqNode(SerValueSeq(v.a, 1))
    [] v.tag = "object" -> MapNode(SerValueMap(v.o, 1))

SerValueSeq(a, i) ==
  IF i > Len(a) THEN <<>> ELSE <<SerValue(a[i])>> \o SerValueSeq(a, i + 1)

SerValueMap(o, i) ==
  IF i > Len(ObjectKeys) THEN <<>>
  ELSE LET ms == {m \in o : m.key = ObjectKeys[i]} IN
       (IF ms = {} THEN <<>>
        ELSE LET m == CHOOSE m \in ms : TRUE IN
             <<[key |-> Scalar("dq", JsonEscape(m.key)), val |-> SerValue(m.val)]>>)
       \o SerValueMap(o, i + 1)

RECURSIVE SerType(_, _), SerVec(_, _, _), SerFields(_, _, _)

SerType(ty, v) ==
  CASE ty = "String" -> Scalar("dq", JsonEscape(v))
    [] ty = "bool"   -> Scalar("plain", IF v THEN "true" ELSE "false")
    [] ty = "i32"    -> Scalar("plain", IntLex(v))
    [] ty = "Value"  -> SerValue(v)
    [] OTHER         -> MapNode(SerFields(ty, v, 1))

SerVec(ty, vs, i) ==
  IF i > Len(vs) THEN <<>> ELSE <<SerType(ty, vs[i])>> \o SerVec(ty, vs, i + 1)

\* skip_serializing_if: a None and an empty Vec write no member at all.
SkipField(f, v) == f.kind \in {"opt", "vec"} /\ v = <<>>

SerFields(ty, v, i) ==
  IF i > Len(Fields(ty)) THEN <<>>
  ELSE LET f == Fields(ty)[i]
           fv == v[f.rust]
           n == CASE f.kind = "req" -> SerType(f.ty, fv)
                  [] f.kind = "opt" -> IF fv = <<>> THEN EmptyScalar ELSE SerType(f.ty, fv[1])
                  [] f.kind = "vec" -> SeqNode(SerVec(f.ty, fv, 1)) IN
       (IF SkipField(f, fv) THEN <<>>
        ELSE <<[key |-> Scalar("dq", CamelCase(f.rust)), val |-> n]>>)
       \o SerFields(ty, v, i + 1)

\* The compact writer: no white space between tokens.
RECURSIVE EmitJson(_), EmitItems(_, _), EmitEntries(_, _)

EmitJson(node) ==
  CASE node.k = "scalar" -> IF node.style = "dq" THEN <<DQ(node.lex)>> ELSE <<LIT(node.lex)>>
    [] node.k = "seq" -> <<P("[")>> \o EmitItems(node.items, 1) \o <<P("]")>>
    [] node.k = "map" -> <<P("{")>> \o EmitEntries(node.items, 1) \o <<P("}")>>

EmitItems(items, i) ==
  IF i > Len(items) THEN <<>>
  ELSE (IF i > 1 THEN <<P(",")>> ELSE <<>>) \o EmitJson(items[i]) \o EmitItems(items, i + 1)

EmitEntries(es, i) ==
  IF i > Len(es) THEN <<>>
  ELSE (IF i > 1 THEN <<P(",")>> ELSE <<>>)
       \o <<DQ(es[i].key.lex), P(":")>> \o EmitJson(es[i].val)
       \o EmitEntries(es, i + 1)

serde_json_to_string(doc) == EmitJson(SerType("OpenCliDocument", doc))

(***************************************************************************)
(* The loader (impl OpenCliDocument) and the Error enum.                   *)
(***************************************************************************)
Ok(doc) == [kind |-> "Ok", doc |-> doc]
\* Error::Parse carries serde_json's error, Error::Io the io::Error and
\* Error::Other a static string; `from` names what the variant carries.
Error(variant, from) == [kind |-> "Err", err |-> variant, from |-> from]
NoResult == [kind |-> "none"]

\* The variants of Error (src/src/error.rs).
ErrorVariants == {"Parse", "Io", "Other"}

\* Bytes are a sequence of chunks: the UTF-8 encoding of one token, or a
\* byte sequence that is not UTF-8 (utf8 = FALSE; tok then names the bytes).
Encode(text) == [i \in 1..Len(text) |-> [utf8 |-> TRUE, tok |-> text[i]]]
BadChunk == [utf8 |-> FALSE, tok |-> P("0xFF")]

IsUtf8(chunk) == chunk.utf8

\* A lossy decoding: the text of the chunks that are UTF-8.
LossyText(bytes) ==
  LET good == SelectSeq(bytes, IsUtf8) IN [i \in 1..Len(good) |-> good[i].tok]

\* str::from_utf8: strict, an error when any byte sequence is not UTF-8.
MutFromUtf8(bytes) == [ok |-> TRUE, text |-> LossyText(bytes)]
from_utf8(bytes) ==
  IF \A i \in 1..Len(bytes) : IsUtf8(bytes[i])
  THEN [ok |-> TRUE, text |-> [i \in 1..Len(bytes) |-> bytes[i].tok]]
  ELSE [ok |-> FALSE, text |-> <<>>]

\* fs::read_to_string on a file [status, bytes]: NotFound, PermissionDenied,
\* or InvalidData when the bytes are not UTF-8.
MutReadToString(file) ==
  IF file.status /= "ok" THEN [ok |-> FALSE, text |-> <<>>]
  ELSE [ok |-> TRUE, text |-> LossyText(file.bytes)]
read_to_string(file) ==
  IF file.status /= "ok" THEN [ok |-> FALSE, text |-> <<>>]
  ELSE from_utf8(file.bytes)

\* The decoder of the first attempt and the one of the fallback.
MutFirstDecoder(content) == serde_json_from_str(content)
FirstDecoder(content) == serde_yaml_from_str(content)
MutSecondDecoder(content) == serde_yaml_from_str(content)
SecondDecoder(content) == serde_json_from_str(content)

\* Err(_) drops the first decoder's error; the ? on the second decoder's
\* result converts its error with From<serde_json::Error>: Error::Parse.
MutFallbackError(first, second) == Error("Parse", first)
FallbackError(first, second) == Error("Parse", second)

\* from_str as a function of its argument.
from_str(content) ==
  LET y == FirstDecoder(content) IN
  IF y.ok THEN Ok(y.val)
  ELSE LET j == SecondDecoder(content) IN
       IF j.ok THEN Ok(j.val) ELSE FallbackError("serde_yaml", "serde_json")

from_slice(bytes) ==
  LET u == from_utf8(bytes) IN
  IF u.ok THEN from_str(u.text) ELSE Error("Other", "utf8")

from_path(file) ==
  LET r == read_to_string(file) IN
  IF r.ok THEN from_str(r.text) ELSE Error("Io", "io")

(***************************************************************************)
(* The inputs: documents, and texts made from them.                        *)
(***************************************************************************)
\* The depth of the command tree under a full document's one command.
MaxDepth == 1

Blank(ty) == [r \in RustNames(ty) |-> <<>>]

Meta(name, value) == [Blank("OpenCliMetadata") EXCEPT !.name = name, !.value = value]
Exit(code, description) ==
  [Blank("OpenCliExitCode") EXCEPT !.code = code, !.description = description]
Arity(min, max) == [minimum |-> min, maximum |-> max]

Arg(name) == [Blank("OpenCliArgument") EXCEPT !.name = name]
ArgFull(mv) ==
  [name |-> "file", required |-> Some(TRUE), arity |-> Some(Arity(Some(1), Some(2))),
   accepted_values |-> <<"x", "y">>, group |-> Some("g"), description |-> Some("an input"),
   hidden |-> Some(FALSE), metadata |-> <<Meta("m", mv)>>]

Opt(name) == [Blank("OpenCliOption") EXCEPT !.name = name]
OptFull(mv) ==
  [name |-> "--out", required |-> Some(FALSE), aliases |-> <<"-o">>,
   arguments |-> <<Arg("path")>>, group |-> Some("g"), description |-> Some("an output"),
   recursive |-> Some(TRUE), hidden |-> None, metadata |-> <<Meta("m", mv)>>]

Cmd(name) == [Blank("OpenCliCommand") EXCEPT !.name = name]

RECURSIVE CmdTree(_, _)
CmdTree(d, mv) ==
  [name |-> "build", aliases |-> <<"b">>, options |-> <<Opt("-v")>>,
   arguments |-> <<Arg("target")>>,
   commands |-> IF d = 0 THEN <<>> ELSE <<CmdTree(d - 1, mv)>>,
   exit_codes |-> <<Exit(0, None), Exit(1, Some("failed"))>>,
   description |-> Some("builds"), hidden |-> Some(FALSE), examples |-> <<"demo build">>,
   interactive |-> Some(FALSE), metadata |-> <<Meta("m", mv)>>]

Info(title) == [Blank("OpenCliInfo") EXCEPT !.title = title, !.version = "1.0"]
InfoFull(title) ==
  [title |-> title, summary |-> Some("a demo"), description |-> None,
   contact |-> Some([name |-> Some("me"), url |-> None, email |-> Some("me@example.org")]),
   license |-> Some([name |-> None, identifier |-> Some("MIT")]), version |-> "1.0"]

Doc(title, mv) ==
  [Blank("OpenCliDocument") EXCEPT !.opencli = "0.1", !.info = Info(title),
                                   !.metadata = <<Meta("m", mv)>>]

MkDoc(shape, title, mv) ==
  CASE shape = 1 -> Doc(title, mv)
    [] shape = 2 -> [Doc(title, mv) EXCEPT !.commands = <<Cmd("build")>>]
    [] shape = 3 ->
         [opencli |-> "0.1", info |-> InfoFull(title),
          conventions |-> Some([group_options |-> Some(TRUE),
                                option_argument_separator |-> Some("=")]),
          arguments |-> <<ArgFull(mv)>>, options |-> <<OptFull(mv)>>,
          commands |-> <<CmdTree(MaxDepth, mv)>>,
          exit_codes |-> <<Exit(2, None)>>, examples |-> <<"demo">>,
          interactive |-> Some(TRUE), metadata |-> <<Meta("m", mv)>>]

Titles == {"demo", "say \"hi\"", "a<U+0085>b", "<U+1F600>"}

MetaValues ==
  {None, Some(VNull), Some(VBool(TRUE)), Some(VInt("123")), Some(VFloat("1.5")),
   Some(VString("say \"hi\"")),
   Some(VArray(<<VInt("1"), VNull, VString("x")>>)),
   Some(VObject({[key |-> "a", val |-> VInt("1")], [key |-> "b", val |-> VArray(<<>>)]}))}

Docs == {MkDoc(shape, title, mv) : shape \in 1..3, title \in Titles, mv \in MetaValues}

\* The document of the concrete scenario of the specification.
ScenarioDoc ==
  [Blank("OpenCliDocument") EXCEPT !.opencli = "0.1", !.info = Info("demo"),
                                   !.commands = <<Cmd("build")>>]

(***************************************************************************)
(* Texts are written from node trees.  Edit changes the member a path      *)
(* names (a path is a sequence of member names; in a sequence it follows   *)
(* the first element): "drop" removes the member, "set" gives it the value *)
(* repl, adding the member when the mapping has none.                      *)
(***************************************************************************)
RECURSIVE Edit(_, _, _, _), EditEntries(_, _, _, _, _)

Edit(node, path, op, repl) ==
  CASE node.k = "seq" ->
         IF node.items = <<>> THEN node
         ELSE SeqNode(<<Edit(node.items[1], path, op, repl)>> \o Tail(node.items))
    [] node.k = "map" ->
         LET has == \E i \in 1..Len(node.items) : node.items[i].key.lex = path[1]
             es == EditEntries(node.items, 1, path, op, repl) IN
         IF ~has /\ Len(path) = 1 /\ op = "set"
         THEN MapNode(Append(node.items, [key |-> Scalar("dq", path[1]), val |-> repl]))
         ELSE MapNode(es)
    [] OTHER -> node

EditEntries(es, i, path, op, repl) ==
  IF i > Len(es) THEN <<>>
  ELSE LET e == es[i]
           rest == EditEntries(es, i + 1, path, op, repl) IN
       IF e.key.lex /= path[1] THEN <<e>> \o rest
       ELSE IF Len(path) > 1
            THEN <<[key |-> e.key, val |-> Edit(e.val, Tail(path), op, repl)]>> \o rest
       ELSE IF op = "drop" THEN rest
       ELSE <<[key |-> e.key, val |-> repl]>> \o rest

\* The same tree in YAML flow style: plain keys, a blank after each colon.
RECURSIVE EmitYaml(_), EmitYamlItems(_, _), EmitYamlEntries(_, _)

EmitYaml(node) ==
  CASE node.k = "scalar" -> IF node.style = "dq" THEN <<DQ(node.lex)>> ELSE <<LIT(node.lex)>>
    [] node.k = "seq" -> <<P("[")>> \o EmitYamlItems(node.items, 1) \o <<P("]")>>
    [] node.k = "map" -> <<P("{")>> \o EmitYamlEntries(node.items, 1) \o <<P("}")>>

EmitYamlItems(items, i) ==
  IF i > Len(items) THEN <<>>
  ELSE (IF i > 1 THEN <<P(","), SP>> ELSE <<>>)
       \o EmitYaml(items[i]) \o EmitYamlItems(items, i + 1)

EmitYamlEntries(es, i) ==
  IF i > Len(es) THEN <<>>
  ELSE (IF i > 1 THEN <<P(","), SP>> ELSE <<>>)
       \o <<LIT(es[i].key.lex), P(":"), SP>> \o EmitYaml(es[i].val)
       \o EmitYamlEntries(es, i + 1)

Styles == {"json", "yaml"}
Emit(style, node) == IF style = "json" THEN EmitJson(node) ELSE EmitYaml(node)

FullDoc == MkDoc(3, "demo", Some(VInt("123")))

\* A document with one record of every kind that has a required field,
\* at every place the model nests one.
BaseDoc ==
  [Doc("demo", Some(VInt("123"))) EXCEPT
     !.arguments = <<Arg("file")>>,
     !.options = <<[Opt("--out") EXCEPT !.arguments = <<Arg("path")>>]>>,
     !.commands = <<[Cmd("build") EXCEPT
                       !.options = <<Opt("-v")>>,
                       !.arguments = <<Arg("target")>>,
                       !.commands = <<[Cmd("sub") EXCEPT !.exit_codes = <<Exit(1, None)>>]>>,
                       !.exit_codes = <<Exit(0, None)>>,
                       !.metadata = <<Meta("k", None)>>]>>,
     !.exit_codes = <<Exit(2, None)>>]
BaseNode == SerType("OpenCliDocument", BaseDoc)

\* Where the required fields of BaseNode are.
RequiredStringPaths ==
  { <<"opencli">>, <<"info", "title">>, <<"info", "version">>,
    <<"arguments", "name">>, <<"options", "name">>, <<"metadata", "name">>,
    <<"options", "arguments", "name">>,
    <<"commands", "name">>, <<"commands", "options", "name">>,
    <<"commands", "arguments", "name">>, <<"commands", "metadata", "name">>,
    <<"commands", "commands", "name">> }

RequiredPaths ==
  RequiredStringPaths \cup
  { <<"info">>, <<"exitCodes", "code">>, <<"commands", "exitCodes", "code">>,
    <<"commands", "commands", "exitCodes", "code">> }

\* Where the sequence fields are: each Vec field of each record.
SequencePaths ==
  { <<"arguments">>, <<"options">>, <<"commands">>, <<"exitCodes">>, <<"examples">>,
    <<"metadata">>,
    <<"commands", "aliases">>, <<"commands", "options">>, <<"commands", "arguments">>,
    <<"commands", "commands">>, <<"commands", "exitCodes">>, <<"commands", "examples">>,
    <<"commands", "metadata">>,
    <<"arguments", "acceptedValues">>, <<"arguments", "metadata">>,
    <<"options", "aliases">>, <<"options", "arguments">>, <<"options", "metadata">> }

\* Values that are no JSON string.
BareScalars == {Scalar("plain", "123"), Scalar("plain", "true")}
Collections == {SeqNode(<<Scalar("dq", "demo")>>), MapNode(<<>>)}

JsonTexts    == {serde_json_to_string(d) :
                   d \in {ScenarioDoc, BaseDoc, FullDoc}
                         \cup {MkDoc(1, title, mv) : title \in Titles, mv \in MetaValues}}
MissingTexts == {Emit(st, Edit(BaseNode, p, "drop", EmptyScalar)) :
                   st \in Styles, p \in RequiredPaths}
WrongTexts   == {Emit(st, Edit(BaseNode, p, "set", r)) :
                   st \in Styles, p \in RequiredStringPaths, r \in BareScalars \cup Collections}
NullSeqTexts == {Emit(st, Edit(BaseNode, p, "set", Scalar("plain", "null"))) :
                   st \in Styles, p \in SequencePaths}
\* In YAML flow style; the last has a plain scalar of two words and a
\* mapping of one pair as the element of a sequence:
\* {opencli: "0.1", info: {title: demo build, version: "1.0"}, metadata: [name: m]}
YamlTexts    ==
  {EmitYaml(SerType("OpenCliDocument", MkDoc(sh, "demo", None))) : sh \in 1..3}
  \cup {<<P("{"), LIT("opencli"), P(":"), SP, DQ("0.1"), P(","), SP,
          LIT("info"), P(":"), SP, P("{"), LIT("title"), P(":"), SP,
          LIT("demo"), SP, LIT("build"), P(","), SP,
          LIT("version"), P(":"), SP, DQ("1.0"), P("}"), P(","), SP,
          LIT("metadata"), P(":"), SP, P("["), LIT("name"), P(":"), SP, LIT("m"),
          P("]"), P("}")>>}
\* JSON only: a tab before the first token, a \u escape of a surrogate
\* pair, a key that holds a raw U+0085, a struct written as an array.
JsonOnlyTexts ==
  {<<TAB>> \o serde_json_to_string(MkDoc(sh, "demo", None)) : sh \in 1..3}
  \cup {<<SP, TAB>> \o serde_json_to_string(MkDoc(1, "a<U+0085>b", None))}
  \cup {EmitJson(Edit(BaseNode, <<"info", "title">>, "set", Scalar("dq", "\\ud83d\\ude00")))}
  \cup {EmitJson(Edit(BaseNode, <<"a<U+0085>b">>, "set", Scalar("plain", "1")))}
  \cup {EmitJson(Edit(BaseNode, <<"exitCodes">>, "set",
                      SeqNode(<<SeqNode(<<Scalar("plain", "1"), Scalar("plain", "null")>>)>>)))}
\* Neither: the malformed text {"opencli": } and others.
MalformedTexts ==
  { <<P("{"), DQ("opencli"), P(":"), SP, P("}")>>,
    <<>>, <<P("{")>>, <<P("]")>>, <<LIT("demo")>>, <<DQ("\\q")>>,
    <<P("{"), DQ("opencli"), P(":"), DQ("0.1")>>,
    SubSeq(serde_json_to_string(FullDoc), 1, Len(serde_json_to_string(FullDoc)) - 1) }

Texts == JsonTexts \cup MissingTexts \cup WrongTexts \cup NullSeqTexts \cup YamlTexts
         \cup JsonOnlyTexts \cup MalformedTexts

(***************************************************************************)
(* The state: the files, and the load calls in progress.  A call has the   *)
(* entry point and its argument, its position pc, the local `content`,     *)
(* its result once it has returned, and what it has done so far: the file  *)
(* reads, the decode attempts in each format, and the positions it has     *)
(* been at.  The calls have nothing else: the crate has no static and no   *)
(* field that outlives a call.                                             *)
(***************************************************************************)
VARIABLES fs, calls, harness

vars == <<fs, calls, harness>>

Paths == {"opencli.yaml", "missing.yaml", "denied.yaml", "binary.yaml"}

\* The bytes of text with bytes that are not UTF-8 after its first k chunks.
Corrupt(text, k) ==
  SubSeq(Encode(text), 1, k) \o <<BadChunk>> \o SubSeq(Encode(text), k + 1, Len(text))

FileSystem(text) ==
  [p \in Paths |->
     CASE p = "opencli.yaml" -> [status |-> "ok", bytes |-> Encode(text)]
       [] p = "missing.yaml" -> [status |-> "missing", bytes |-> <<>>]
       [] p = "denied.yaml"  -> [status |-> "denied", bytes |-> Encode(text)]
       [] p = "binary.yaml"  -> [status |-> "ok", bytes |-> Corrupt(text, Len(text) \div 2)]]

ScenarioText == serde_json_to_string(ScenarioDoc)
MalformedText == <<P("{"), DQ("opencli"), P(":"), SP, P("}")>>

FileTexts == JsonTexts \cup YamlTexts \cup JsonOnlyTexts \cup MalformedTexts

Input(entry, path, bytes, text) ==
  [entry |-> entry, path |-> path, bytes |-> bytes, text |-> text]

StrInputs == {Input("from_str", "", <<>>, t) : t \in Texts}
SliceInputs ==
  {Input("from_slice", "", Encode(t), <<>>) : t \in FileTexts}
  \cup {Input("from_slice", "", Corrupt(t, k), <<>>) :
          t \in {ScenarioText, MalformedText}, k \in {0, 2, 5}}
  \cup {Input("from_slice", "", <<BadChunk>>, <<>>)}
PathInputs == {Input("from_path", p, <<>>, <<>>) : p \in Paths}

NewCall(in) ==
  [entry |-> in.entry, path |-> in.path, bytes |-> in.bytes, text |-> in.text,
   pc |-> "Start", content |-> <<>>, result |-> NoResult,
   reads |-> 0, triesA |-> 0, triesB |-> 0, trace |-> <<"Start">>]

Idle == [phase |-> "idle"]

Init ==
  /\ harness = Idle
  /\ \E in \in StrInputs \cup SliceInputs \cup PathInputs, t \in FileTexts :
       /\ in.entry /= "from_path" => t = ScenarioText
       /\ fs = FileSystem(t)
       /\ calls = <<NewCall(in)>>

Returned(call) == call.pc \in {"Done", "Failed"}

\* The call moves to pc, with the changes of `with` to its other fields.
Goto(call, pc, with) ==
  [f \in DOMAIN call |->
     IF f = "pc" THEN pc
     ELSE IF f = "trace" THEN Append(call.trace, pc)
     ELSE IF f \in DOMAIN with THEN with[f] ELSE call[f]]

\* from_path: fs::read_to_string(path)?, then from_str(&content).
ReadFile(c) ==
  /\ calls[c].pc = "Start" /\ calls[c].entry = "from_path"
  /\ LET r == read_to_string(fs[calls[c].path])
         n == calls[c].reads + 1 IN
     calls' = [calls EXCEPT ![c] =
       IF r.ok THEN Goto(@, "TryFormatA", [content |-> r.text, reads |-> n])
       ELSE Goto(@, "Failed", [result |-> Error("Io", "io"), reads |-> n])]
  /\ UNCHANGED <<fs, harness>>

\* from_slice: str::from_utf8(content).map_err(|_| Error::Other("utf8"))?,
\* then from_str(content).
CheckUtf8(c) ==
  /\ calls[c].pc = "Start" /\ calls[c].entry = "from_slice"
  /\ LET u == from_utf8(calls[c].bytes) IN
     calls' = [calls EXCEPT ![c] =
       IF u.ok THEN Goto(@, "TryFormatA", [content |-> u.text])
       ELSE Goto(@, "Failed", [result |-> Error("Other", "utf8")])]
  /\ UNCHANGED <<fs, harness>>

\* from_str called by the host program.
EnterFromStr(c) ==
  /\ calls[c].pc = "Start" /\ calls[c].entry = "from_str"
  /\ calls' = [calls EXCEPT ![c] = Goto(@, "TryFormatA", [content |-> @.text])]
  /\ UNCHANGED <<fs, harness>>

\* The text a decode attempt of call c reads: its own `content`.
MutContent(cs, c) == cs[1].content
Content(cs, c) == cs[c].content

\* match serde_yaml::from_str(content) { Ok(data) => Ok(data), Err(_) => ... }
TryFormatA(c) ==
  /\ calls[c].pc = "TryFormatA"
  /\ LET y == FirstDecoder(Content(calls, c))
         n == calls[c].triesA + 1 IN
     calls' = [calls EXCEPT ![c] =
       IF y.ok THEN Goto(@, "Done", [result |-> Ok(y.val), triesA |-> n])
       ELSE Goto(@, "TryFormatB", [triesA |-> n])]
  /\ UNCHANGED <<fs, harness>>

MutTryFormatB(c) ==
  /\ calls[c].pc = "TryFormatB"
  /\ LET j == SecondDecoder(Content(calls, c))
         n == calls[c].triesB + 1 IN
     calls' = [calls EXCEPT ![c] =
       IF j.ok THEN Goto(@, "Done", [result |-> Ok(j.val), triesB |-> n])
       ELSE IF n < 2 THEN Goto(@, "TryFormatB", [triesB |-> n])
       ELSE Goto(@, "Failed", [result |-> FallbackError("serde_yaml", "serde_json"),
                               triesB |-> n])]
  /\ UNCHANGED <<fs, harness>>

\* let json_data = serde_json::from_str(content)?; Ok(json_data)
\* The ? converts serde_json's error with From: Error::Parse.
TryFormatB(c) ==
  /\ calls[c].pc = "TryFormatB"
  /\ LET j == SecondDecoder(Content(calls, c))
         n == calls[c].triesB + 1 IN
     calls' = [calls EXCEPT ![c] =
       IF j.ok THEN Goto(@, "Done", [result |-> Ok(j.val), triesB |-> n])
       ELSE Goto(@, "Failed", [result |-> FallbackError("serde_yaml", "serde_json"),
                               triesB |-> n])]
  /\ UNCHANGED <<fs, harness>>

Next ==
  \/ \E c \in DOMAIN calls : ReadFile(c)
  \/ \E c \in DOMAIN calls : CheckUtf8(c)
  \/ \E c \in DOMAIN calls : EnterFromStr(c)
  \/ \E c \in DOMAIN calls : TryFormatA(c)
  \/ \E c \in DOMAIN calls : TryFormatB(c)

Spec == Init /\ [][Next]_vars

(***************************************************************************)
(* Properties of one load call (Spec).                                     *)
(***************************************************************************)
\* The call has its text: it is past the read or the UTF-8 check.
HasContent(call) == call.triesA > 0

YamlOf(call) == serde_yaml_from_str(call.content)
JsonOf(call) == serde_json_from_str(call.content)

\* C1: when the format-A (YAML) decode of the text succeeds, the call
\* returns exactly the document of that decode and format B (JSON) is never
\* attempted, also when JSON would decode the text to another document.
C1_FormatPrecedence ==
  \A c \in DOMAIN calls :
    LET call == calls[c] IN
    (Returned(call) /\ HasContent(call) /\ YamlOf(call).ok) =>
      /\ call.result = Ok(YamlOf(call).val)
      /\ call.triesB = 0
      /\ \A i \in 1..Len(call.trace) : call.trace[i] /= "TryFormatB"

\* A returned call on a text that both formats decode, to different
\* documents.
C1_Witness ==
  \E c \in DOMAIN calls :
    LET call == calls[c] IN
    /\ Returned(call) /\ HasContent(call)
    /\ YamlOf(call).ok /\ JsonOf(call).ok
    /\ YamlOf(call).val /= JsonOf(call).val
    /\ call.result = Ok(YamlOf(call).val)

\* C2: when the format-A decode fails and the format-B decode succeeds, the
\* call returns Ok with exactly the document of the format-B decode; the
\* format-A failure is not returned.
C2_FormatFallback ==
  \A c \in DOMAIN calls :
    LET call == calls[c] IN
    (Returned(call) /\ HasContent(call) /\ ~YamlOf(call).ok /\ JsonOf(call).ok) =>
      /\ call.result = Ok(JsonOf(call).val)
      /\ call.pc = "Done"

\* A returned call on a text that only JSON decodes.
C2_Witness ==
  \E c \in DOMAIN calls :
    LET call == calls[c] IN
    /\ Returned(call) /\ HasContent(call)
    /\ ~YamlOf(call).ok /\ JsonOf(call).ok
    /\ call.result = Ok(JsonOf(call).val)
    /\ call.triesA = 1 /\ call.triesB = 1

\* C3: when both decodes fail, from_str, and from_slice on the bytes of the
\* text, return Error::Parse carrying serde_json's failure: never the YAML
\* failure, never Io or Other.  The malformed text {"opencli": } is such a
\* text.
C3_ErrorSurfacing ==
  \A c \in DOMAIN calls :
    LET call == calls[c] IN
    /\ (Returned(call) /\ HasContent(call) /\ ~YamlOf(call).ok /\ ~JsonOf(call).ok) =>
         call.result = Error("Parse", "serde_json")
    /\ (Returned(call) /\ HasContent(call) /\ call.content = MalformedText) =>
         call.result = Error("Parse", "serde_json")

\* from_slice has returned on the bytes of {"opencli": }.
C3_Witness ==
  \E c \in DOMAIN calls :
    LET call == calls[c] IN
    /\ Returned(call) /\ call.entry = "from_slice"
    /\ call.bytes = Encode(MalformedText)
    /\ call.result = Error("Parse", "serde_json")

\* C4: from_slice on bytes that are not UTF-8 fails at once with
\* Error::Other and attempts no decode; on UTF-8 bytes it returns what
\* from_str returns on the decoded text.
C4_FromSlice ==
  \A c \in DOMAIN calls :
    LET call == calls[c] IN
    (Returned(call) /\ call.entry = "from_slice") =>
      IF \E i \in 1..Len(call.bytes) : ~call.bytes[i].utf8
      THEN /\ call.result = Error("Other", "utf8")
           /\ call.triesA = 0 /\ call.triesB = 0
           /\ call.trace = <<"Start", "Failed">>
      ELSE /\ call.content = [i \in 1..Len(call.bytes) |-> call.bytes[i].tok]
           /\ call.result = from_str(call.content)

\* from_slice has returned on bytes whose text is the scenario's but for
\* bytes that are not UTF-8 in the middle.
C4_Witness ==
  \E c \in DOMAIN calls :
    LET call == calls[c] IN
    /\ Returned(call) /\ call.entry = "from_slice"
    /\ call.bytes = Corrupt(ScenarioText, 5)
    /\ call.result = Error("Other", "utf8")

\* C5: from_path returns Error::Io when the file cannot be read as text
\* (missing, no permission, not UTF-8) and attempts no decode; when the read
\* succeeds it returns what from_str returns on the contents.  No other
\* entry point and no other step returns Error::Io.
C5_FromPath ==
  \A c \in DOMAIN calls :
    LET call == calls[c]
        file == fs[call.path]
        readable == /\ file.status = "ok"
                    /\ \A i \in 1..Len(file.bytes) : file.bytes[i].utf8 IN
    /\ (Returned(call) /\ call.entry = "from_path") =>
         IF readable
         THEN /\ call.content = [i \in 1..Len(file.bytes) |-> file.bytes[i].tok]
              /\ call.result = from_str(call.content)
         ELSE /\ call.result = Error("Io", "io")
              /\ call.triesA = 0 /\ call.triesB = 0
    /\ (call.result.kind = "Err" /\ call.result.err = "Io") =>
         /\ call.entry = "from_path"
         /\ call.trace = <<"Start", "Failed">>
         /\ call.reads = 1

\* from_path has returned on a file whose content is not UTF-8.
C5_Witness ==
  \E c \in DOMAIN calls :
    LET call == calls[c] IN
    /\ Returned(call) /\ call.entry = "from_path"
    /\ fs[call.path].status = "ok"
    /\ call.result = Error("Io", "io")

\* The node tree of a text, as the grammar that accepts it reads it.
Parsed(content) ==
  IF YamlParse(content).ok THEN YamlParse(content) ELSE JsonParse(content)

HasMember(node, name) == \E i \in 1..Len(node.items) : node.items[i].key.lex = name
Member(node, name) ==
  node.items[CHOOSE i \in 1..Len(node.items) : node.items[i].key.lex = name].val

\* The object `node`, read as the struct ty, lacks a required member, or a
\* record nested in it at any depth does.
RECURSIVE LacksRequired(_, _)
LacksRequired(ty, node) ==
  /\ node.k = "map"
  /\ \E i \in 1..Len(Fields(ty)) :
       LET f == Fields(ty)[i]
           name == CamelCase(f.rust) IN
       \/ f.kind = "req" /\ ~HasMember(node, name)
       \/ /\ HasMember(node, name) /\ f.ty \in StructNames
          /\ LET v == Member(node, name) IN
             IF f.kind = "vec"
             THEN v.k = "seq" /\ \E j \in 1..Len(v.items) : LacksRequired(f.ty, v.items[j])
             ELSE LacksRequired(f.ty, v)

\* A required string member of the object, at any depth, holds a value of
\* the kind `what`: "collection" (a sequence or a mapping) or "bare" (a
\* number or a boolean written without quotes).
IsKind(what, v) ==
  IF what = "collection" THEN v.k \in {"seq", "map"}
  ELSE v.k = "scalar" /\ v.style = "plain"

RECURSIVE RequiredStringIs(_, _, _)
RequiredStringIs(what, ty, node) ==
  /\ node.k = "map"
  /\ \E i \in 1..Len(Fields(ty)) :
       LET f == Fields(ty)[i]
           name == CamelCase(f.rust) IN
       /\ HasMember(node, name)
       /\ LET v == Member(node, name) IN
          \/ f.kind = "req" /\ f.ty = "String" /\ IsKind(what, v)
          \/ /\ f.ty \in StructNames
             /\ IF f.kind = "vec"
                THEN v.k = "seq"
                     /\ \E j \in 1..Len(v.items) : RequiredStringIs(what, f.ty, v.items[j])
                ELSE RequiredStringIs(what, f.ty, v)

\* Every struct of the value has all the fields of its type.
RECURSIVE Complete(_, _)
Complete(ty, v) ==
  /\ DOMAIN v = RustNames(ty)
  /\ \A i \in 1..Len(Fields(ty)) :
       LET f == Fields(ty)[i] IN
       f.ty \in StructNames =>
         CASE f.kind = "req" -> Complete(f.ty, v[f.rust])
           [] f.kind = "opt" -> v[f.rust] = None \/ Complete(f.ty, v[f.rust][1])
           [] f.kind = "vec" -> \A j \in 1..Len(v[f.rust]) : Complete(f.ty, v[f.rust][j])

Lacking(call) ==
  Parsed(call.content).ok /\ LacksRequired("OpenCliDocument", Parsed(call.content).node)
Holding(what, call) ==
  Parsed(call.content).ok
  /\ RequiredStringIs(what, "OpenCliDocument", Parsed(call.content).node)

\* What the decoders do enforce: a text in which a required member is
\* missing at any depth, or in which a required string is a sequence or a
\* mapping, fails to decode in both formats and from_str returns
\* Error::Parse; a required string that is a bare number or boolean fails
\* in serde_json; a document that is returned is complete.
RequiredFieldsEnforced ==
  \A c \in DOMAIN calls :
    LET call == calls[c] IN
    (Returned(call) /\ HasContent(call)) =>
      /\ (Lacking(call) \/ Holding("collection", call)) =>
           /\ ~YamlOf(call).ok /\ ~JsonOf(call).ok
           /\ call.result = Error("Parse", "serde_json")
      /\ Holding("bare", call) => ~JsonOf(call).ok
      /\ call.result.kind = "Ok" => Complete("OpenCliDocument", call.result.doc)

\* C8: a text in which a required field (opencli, info, title and version
\* of info, name of a Command, Argument, Option or Metadata, code of an
\* ExitCode, at any depth) is missing, or a required string has a value of
\* another type, fails to decode in format A and in format B, and from_str
\* returns an error.
C8_RequiredFieldEnforcement ==
  \A c \in DOMAIN calls :
    LET call == calls[c] IN
    (Returned(call) /\ HasContent(call)
       /\ (Lacking(call) \/ Holding("collection", call) \/ Holding("bare", call))) =>
      /\ ~YamlOf(call).ok /\ ~JsonOf(call).ok
      /\ call.result.kind = "Err"

(***************************************************************************)
(* The state machine of a call.                                            *)
(***************************************************************************)
DecodedTraces ==
  { <<"Start", "TryFormatA", "Done">>,
    <<"Start", "TryFormatA", "TryFormatB", "Done">>,
    <<"Start", "TryFormatA", "TryFormatB", "Failed">> }

IsPrefix(p, q) == Len(p) <= Len(q) /\ SubSeq(q, 1, Len(p)) = p

\* The guard of one of the steps holds of the call.
CanStep(call) ==
  \/ call.pc = "Start" /\ call.entry \in {"from_path", "from_slice", "from_str"}
  \/ call.pc \in {"TryFormatA", "TryFormatB"}

\* What holds of a call in every state, but for the shape of its trace.
CallShape(call) ==
  /\ call.reads <= 1 /\ call.triesA <= 1 /\ call.triesB <= 1
  /\ call.reads = 1 => call.entry = "from_path"
  /\ call.triesB = 1 => call.triesA = 1
  /\ Len(call.trace) <= 4
  /\ call.pc = call.trace[Len(call.trace)]
  /\ IF Returned(call)
     THEN /\ call.pc = "Done" <=> call.result.kind = "Ok"
          /\ call.pc = "Failed" <=> call.result.kind = "Err"
          /\ call.result.kind = "Ok" =>
               /\ DOMAIN call.result = {"kind", "doc"}
               /\ Complete("OpenCliDocument", call.result.doc)
          /\ call.result.kind = "Err" =>
               /\ DOMAIN call.result = {"kind", "err", "from"}
               /\ call.result.err \in ErrorVariants
     ELSE call.result = NoResult

\* C9 (as amended): a call that gets its text follows Start -> TryFormatA
\* -> {Done | TryFormatB -> {Done | Failed}}; a call whose file read or
\* UTF-8 check fails goes from Start to Failed with no decode attempt.  A
\* call returns after at most three steps, and until then the guard of a
\* step holds; it reads at most one file and decodes at most twice, format A
\* before format B, never one format twice; it returns either a complete
\* document or one error of the kinds Parse, Io, Other, never both.
C9_StateMachine ==
  \A c \in DOMAIN calls :
    LET call == calls[c] IN
    /\ CallShape(call)
    /\ \E t \in DecodedTraces \cup {<<"Start", "Failed">>} : IsPrefix(call.trace, t)
    /\ call.trace = <<"Start", "Failed">> =>
         /\ call.entry \in {"from_path", "from_slice"}
         /\ call.result.err \in {"Io", "Other"}
         /\ call.triesA = 0 /\ call.triesB = 0
    /\ ~Returned(call) => CanStep(call)

\* A call has returned Error::Parse after one attempt in each format.
C9_Witness ==
  \E c \in DOMAIN calls :
    LET call == calls[c] IN
    /\ call.trace = <<"Start", "TryFormatA", "TryFormatB", "Failed">>
    /\ call.triesA = 1 /\ call.triesB = 1
    /\ call.result = Error("Parse", "serde_json")

\* C9 as stated: every call follows Start -> TryFormatA -> ...
C9_Original ==
  \A c \in DOMAIN calls :
    LET call == calls[c] IN
    /\ CallShape(call)
    /\ \E t \in DecodedTraces : IsPrefix(call.trace, t)

(***************************************************************************)
(* A host program that writes texts and loads them (SpecHost).  It either  *)
(* serializes a document with serde_json::to_string and loads the text,    *)
(* then serializes what it got and loads again; or it loads the text of    *)
(* BaseDoc with one sequence field missing, null or the empty list.        *)
(***************************************************************************)
Entries == {"from_str", "from_slice", "from_path"}
SequenceForms == {"missing", "null", "empty"}

\* The host starts a load of the text through the entry point; for
\* from_path it writes the text to the file first.
Submit(text, entry) ==
  /\ calls' = Append(calls, NewCall(
       CASE entry = "from_str"   -> Input("from_str", "", <<>>, text)
         [] entry = "from_slice" -> Input("from_slice", "", Encode(text), <<>>)
         [] entry = "from_path"  -> Input("from_path", "opencli.yaml", <<>>, <<>>)))
  /\ fs' = IF entry = "from_path"
           THEN [fs EXCEPT !["opencli.yaml"] = [status |-> "ok", bytes |-> Encode(text)]]
           ELSE fs

Serialize(d, entry) ==
  /\ harness.phase = "start"
  /\ harness' = [phase |-> "roundtrip", doc |-> d, entry |-> entry]
  /\ Submit(serde_json_to_string(d), entry)

Reserialize ==
  /\ harness.phase = "roundtrip"
  /\ Len(calls) = 1 /\ calls[1].result.kind = "Ok"
  /\ Submit(serde_json_to_string(calls[1].result.doc), harness.entry)
  /\ UNCHANGED harness

SequenceText(p, style, form) ==
  Emit(style,
       CASE form = "missing" -> Edit(BaseNode, p, "drop", EmptyScalar)
         [] form = "null"    -> Edit(BaseNode, p, "set", Scalar("plain", "null"))
         [] form = "empty"   -> Edit(BaseNode, p, "set", SeqNode(<<>>)))

WriteSequence(p, style, form) ==
  /\ harness.phase = "start"
  /\ harness' = [phase |-> "sequence", path |-> p, style |-> style, form |-> form]
  /\ Submit(SequenceText(p, style, form), "from_str")

InitHost ==
  /\ harness = [phase |-> "start"]
  /\ calls = <<>>
  /\ fs = FileSystem(ScenarioText)

NextHost ==
  \/ \E d \in Docs, entry \in Entries : Serialize(d, entry)
  \/ Reserialize
  \/ \E p \in SequencePaths, style \in Styles, form \in SequenceForms :
       WriteSequence(p, style, form)
  \/ Next

SpecHost == InitHost /\ [][NextHost]_vars

\* C6: for every document d, loading the JSON text of d returns Ok with a
\* document equal to d, and so does loading the JSON text of that document.
C6_RoundTrip ==
  \A c \in DOMAIN calls :
    (harness.phase = "roundtrip" /\ Returned(calls[c])) =>
      calls[c].result = Ok(harness.doc)

\* The document with the sequence field at the path empty.
RECURSIVE Clear(_, _, _)
Clear(ty, v, path) ==
  LET f == Fields(ty)[FieldIndex(ty, path[1])] IN
  IF Len(path) = 1 THEN [v EXCEPT ![f.rust] = <<>>]
  ELSE [v EXCEPT ![f.rust] = <<Clear(f.ty, @[1], Tail(path))>> \o Tail(@)]

\* C7: for every sequence field, the loads of a document with the field
\* missing, with the field null and with the field the empty list all
\* succeed with the same document, whose field is the empty sequence, in
\* both formats; and the JSON text of a document has no member for an empty
\* sequence field.
C7_SequenceDefaulting ==
  /\ \A c \in DOMAIN calls :
       (harness.phase = "sequence" /\ Returned(calls[c])) =>
         calls[c].result = Ok(Clear("OpenCliDocument", BaseDoc, harness.path))
  /\ harness.phase = "sequence" =>
       LET d == Clear("OpenCliDocument", BaseDoc, harness.path) IN
       serde_json_to_string(d) = SequenceText(harness.path, "json", "missing")

(***************************************************************************)
(* Several load calls at once (SpecConc): the steps of the calls           *)
(* interleave in every order.                                              *)
(***************************************************************************)
NumCalls == 2

ConcInputs ==
  { Input("from_str", "", <<>>, ScenarioText),
    Input("from_str", "", <<>>, MalformedText),
    Input("from_str", "", <<>>, <<TAB>> \o serde_json_to_string(MkDoc(2, "demo", None))),
    Input("from_slice", "", Encode(EmitYaml(SerType("OpenCliDocument", MkDoc(1, "demo", None)))),
          <<>>),
    Input("from_slice", "", Corrupt(ScenarioText, 2), <<>>),
    Input("from_path", "opencli.yaml", <<>>, <<>>),
    Input("from_path", "missing.yaml", <<>>, <<>>) }

InitConc ==
  /\ harness = Idle
  /\ fs = FileSystem(serde_json_to_string(MkDoc(2, "say \"hi\"", Some(VBool(TRUE)))))
  /\ calls \in [1..NumCalls -> {NewCall(in) : in \in ConcInputs}]

SpecConc == InitConc /\ [][Next]_vars

\* What the call returns when it runs alone.
Alone(call) ==
  CASE call.entry = "from_str"   -> from_str(call.text)
    [] call.entry = "from_slice" -> from_slice(call.bytes)
    [] call.entry = "from_path"  -> from_path(fs[call.path])

SameInput(a, b) ==
  a.entry = b.entry /\ a.path = b.path /\ a.bytes = b.bytes /\ a.text = b.text

\* C10: in every interleaving of the steps of concurrent calls, a call that
\* has returned has the outcome it has when run alone, and two calls on the
\* same text, bytes or file have the same outcome; a call that has not
\* taken a step is as it was made.
C10_Reentrancy ==
  /\ \A c \in DOMAIN calls :
       /\ Returned(calls[c]) => calls[c].result = Alone(calls[c])
       /\ Len(calls[c].trace) = 1 =>
            calls[c] = NewCall(Input(calls[c].entry, calls[c].path,
                                     calls[c].bytes, calls[c].text))
  /\ \A c1, c2 \in DOMAIN calls :
       (Returned(calls[c1]) /\ Returned(calls[c2]) /\ SameInput(calls[c1], calls[c2])) =>
         calls[c1].result = calls[c2].result

\* Two calls on different inputs, both under way: one has returned a
\* document after the other began and before it ends.
C10_Witness ==
  \E c1, c2 \in DOMAIN calls :
    /\ c1 < c2 /\ ~SameInput(calls[c1], calls[c2])
    /\ calls[c1].pc = "TryFormatB"
    /\ calls[c2].pc = "Done" /\ calls[c2].result = Alone(calls[c2])

=============================================================================
